---- MODULE Spec2Model ----
(***************************************************************************)
(* Retrieval pipelines of TianGong-AI-LangServe:                           *)
(*   SearchESG._run / SearchESG._arun  (services/lc/tools/search_esg_tool) *)
(*   search                       (services/standalone/search_academic_db) *)
(* Each invocation runs Embed -> Vector-Search -> Metadata-Fetch -> Join.  *)
(*                                                                         *)
(* Strings the code inspects (identifiers cut by rpartition, dates parsed  *)
(* by strptime) are sequences of one-character strings; strings the code   *)
(* only copies are TLA+ strings.  Python's None is the empty tuple and a   *)
(* present value x is <<x>>.  A dict is a function on its keys.            *)
(***************************************************************************)
EXTENDS Integers, Sequences, FiniteSets, TLC

VARIABLES pipeline, top_k, doc_ids, index, st

vars == <<pipeline, top_k, doc_ids, index, st>>

(* ------------------------------ bounds -------------------------------- *)

MaxMatches == 2

MaxRecords == 2

(* ------------------------- Python primitives -------------------------- *)

None == <<>>

Some(x) == <<x>>

Ok(v) == [ok |-> TRUE, val |-> v]

Err(e) == [ok |-> FALSE, err |-> e]

EmptyDict == [k \in {} |-> 0]

RECURSIVE Str(_)
Str(s) == IF s = <<>> THEN "" ELSE Head(s) \o Str(Tail(s))

Digits == <<"0", "1", "2", "3", "4", "5", "6", "7", "8", "9">>

IsDigit(c) == \E d \in 1..10 : Digits[d] = c

DigitVal(c) == (CHOOSE d \in 1..10 : Digits[d] = c) - 1

RECURSIVE NumVal(_)
NumVal(s) ==
    IF s = <<>> THEN 0 ELSE 10 * NumVal(SubSeq(s, 1, Len(s) - 1)) + DigitVal(s[Len(s)])

RECURSIVE Pad(_, _)
Pad(n, width) ==
    IF width = 0 THEN <<>> ELSE Append(Pad(n \div 10, width - 1), Digits[(n % 10) + 1])

IsLeap(y) == (y % 4 = 0 /\ y % 100 # 0) \/ y % 400 = 0

DaysIn(y, m) ==
    IF m = 2 THEN (IF IsLeap(y) THEN 29 ELSE 28)
    ELSE IF m \in {4, 6, 9, 11} THEN 30 ELSE 31

(* str.rpartition(sep)[0]: the part before the last sep, "" when sep is absent *)
RPartitionHead(s, sep) ==
    IF \E i \in 1..Len(s) : s[i] = sep
    THEN LET last == CHOOSE i \in 1..Len(s) :
                        s[i] = sep /\ \A j \in (i + 1)..Len(s) : s[j] # sep
         IN SubSeq(s, 1, last - 1)
    ELSE <<>>

(* datetime.strptime(s, "%Y-%m-%dT%H:%M:%SZ") on zero-padded input *)
StrpTime(s) ==
    IF /\ Len(s) = 20
       /\ s[5] = "-" /\ s[8] = "-" /\ s[11] = "T"
       /\ s[14] = ":" /\ s[17] = ":" /\ s[20] = "Z"
       /\ \A i \in {1, 2, 3, 4, 6, 7, 9, 10, 12, 13, 15, 16, 18, 19} : IsDigit(s[i])
    THEN LET y  == NumVal(SubSeq(s, 1, 4))
             mo == NumVal(SubSeq(s, 6, 7))
             d  == NumVal(SubSeq(s, 9, 10))
             h  == NumVal(SubSeq(s, 12, 13))
             mi == NumVal(SubSeq(s, 15, 16))
             se == NumVal(SubSeq(s, 18, 19))
         IN IF /\ y >= 1 /\ mo \in 1..12 /\ d >= 1 /\ d <= DaysIn(y, mo)
               /\ h <= 23 /\ mi <= 59 /\ se <= 61
            THEN Ok([year |-> y, month |-> mo, day |-> d])
            ELSE Err("ValueError")
    ELSE Err("ValueError")

(* date.strftime("%Y-%m-%d") *)
StrfDay(dt) == Pad(dt.year, 4) \o <<"-">> \o Pad(dt.month, 2) \o <<"-">> \o Pad(dt.day, 2)

(* datetime.fromtimestamp(ts) for ts >= 0, read in UTC: days since the epoch to year/month *)
FromTimestamp(ts) ==
    LET z   == (ts \div 86400) + 719468
        era == z \div 146097
        doe == z - era * 146097
        yoe == (doe - (doe \div 1460) + (doe \div 36524) - (doe \div 146096)) \div 365
        doy == doe - (365 * yoe + (yoe \div 4) - (yoe \div 100))
        mp  == (5 * doy + 2) \div 153
        m   == IF mp < 10 THEN mp + 3 ELSE mp - 9
        y   == yoe + era * 400 + (IF m <= 2 THEN 1 ELSE 0)
    IN [year |-> y, month |-> m, day |-> doy - ((153 * mp + 2) \div 5) + 1]

(* date.strftime("%Y-%m") *)
StrfMonth(dt) == Pad(dt.year, 4) \o <<"-">> \o Pad(dt.month, 2)

(* ", ".join(xs) *)
RECURSIVE JoinComma(_)
JoinComma(xs) ==
    IF xs = <<>> THEN ""
    ELSE IF Len(xs) = 1 THEN xs[1]
    ELSE xs[1] \o ", " \o JoinComma(Tail(xs))

(* ------------------- data held by the collaborators ------------------- *)

BoundedSeq(S, n) == UNION {[1..m -> S] : m \in 0..n}

Range(xs) == {xs[i] : i \in 1..Len(xs)}

Take(xs, n) == SubSeq(xs, 1, IF n < Len(xs) THEN n ELSE Len(xs))

NoRepeat(xs) == \A i, j \in 1..Len(xs) : xs[i] = xs[j] => i = j

DefaultTopK == 16

TopKs == {1, DefaultTopK}

DateMay4 == <<"2", "0", "2", "3", "-", "0", "5", "-", "0", "4", "T", "0", "0", ":", "0", "0", ":", "0", "0", "Z">>

DateDec31 == <<"2", "0", "2", "2", "-", "1", "2", "-", "3", "1", "T", "2", "3", ":", "5", "9", ":", "5", "9", "Z">>

DateNoTime == <<"2", "0", "2", "2", "-", "1", "2", "-", "3", "1">>

(* vector matches of the ESG namespace: {id, metadata} *)
EsgMatchPool ==
    { [id |-> "v1", metadata |-> [rec_id |-> "abc123", page_number |-> 3, text |-> "t1"]],
      [id |-> "v2", metadata |-> [rec_id |-> "r2", page_number |-> 5, text |-> "t2"]],
      [id |-> "v3", metadata |-> [rec_id |-> "abc123", page_number |-> 7, text |-> "t3"]],
      [id |-> "v4", metadata |-> [rec_id |-> "r3", text |-> "t4"]],
      [id |-> "v5", metadata |-> [page_number |-> 9, text |-> "t5"]] }

(* records of the ESG table *)
EsgRecordPool ==
    { [id |-> "abc123", company_short_name |-> "ACME", report_title |-> "Impact Report",
       publication_date |-> DateMay4],
      [id |-> "abc123", company_short_name |-> "ACME", report_title |-> "Impact Report"],
      [id |-> "r2", company_short_name |-> "Beta", report_title |-> "ESG 2022",
       publication_date |-> DateDec31],
      [id |-> "r2", company_short_name |-> "Beta", report_title |-> "ESG 2022",
       publication_date |-> DateNoTime],
      [id |-> "r2", publication_date |-> DateDec31],
      [id |-> "r3", company_short_name |-> "Gamma", report_title |-> "Annual",
       publication_date |-> DateMay4] }

DocIdChoices == {None, Some(<<>>), Some(<<"abc123", "r3">>)}

IdXyz0 == <<"1", "0", ".", "1", "0", "0", "0", "/", "x", "y", "z", "_", "0">>

IdXyz1 == <<"1", "0", ".", "1", "0", "0", "0", "/", "x", "y", "z", "_", "1">>

IdAB0 == <<"a", "_", "b", "_", "0">>

IdAB1 == <<"a", "_", "b", "_", "1">>

IdAB2 == <<"a", "_", "b", "_", "2">>

IdPlain == <<"p", "l", "a", "i", "n">>

DoiXyz == <<"1", "0", ".", "1", "0", "0", "0", "/", "x", "y", "z">>

DoiAB == <<"a", "_", "b">>

DoiA == <<"a">>

(* vector matches of the academic namespace *)
SciMatchPool ==
    { [id |-> IdXyz0, metadata |-> [text |-> "s1", date |-> 1683158400, journal |-> "Nature"]],
      [id |-> IdXyz1, metadata |-> [text |-> "s2", date |-> 1683158400, journal |-> "Nature"]],
      [id |-> IdAB0, metadata |-> [text |-> "s3", date |-> 86400, journal |-> "Science"]],
      [id |-> IdAB1, metadata |-> [text |-> "s4", journal |-> "Science"]],
      [id |-> IdAB2, metadata |-> [text |-> "s5", date |-> 86400]],
      [id |-> IdPlain, metadata |-> [text |-> "s6", date |-> 0, journal |-> "Cell"]] }

(* rows of the journals table *)
SciRecordPool ==
    { [doi |-> DoiXyz, title |-> "On XYZ", authors |-> <<"Ann", "Bob">>],
      [doi |-> DoiAB, title |-> "On AB", authors |-> <<"Cy">>],
      [doi |-> DoiAB, title |-> "On AB"],
      [doi |-> DoiA, title |-> "On A", authors |-> <<"Di">>],
      [doi |-> <<>>, title |-> "Untitled", authors |-> <<>>] }

MatchPool(p) == IF p = "ESG" THEN EsgMatchPool ELSE SciMatchPool

(* what the embedding provider may answer *)
EmbedResponses ==
    {[data |-> <<[embedding |-> "vec"]>>], [data |-> <<>>], [raised |-> "AuthenticationError"]}

(* how the vector index may fail *)
IndexFaults == {None, Some("PineconeException")}

(* what the ESG store may answer: records, a body without records, or a raised error *)
EsgStoreResponses ==
    {[records |-> r] : r \in BoundedSeq(EsgRecordPool, MaxRecords)}
        \cup {[message |-> "Unauthorized"], [raised |-> "ConnectionError"]}

(* what the journals store may answer: rows, or a raised error *)
SciStoreResponses ==
    {[data |-> r] : r \in BoundedSeq(SciRecordPool, MaxRecords)}
        \cup {[raised |-> "ConnectError"]}

StoreResponses(p) == IF p = "ESG" THEN EsgStoreResponses ELSE SciStoreResponses

(* Pinecone metadata filter {field: {"$in": values}} *)
Passes(m, filter) ==
    \/ filter = None
    \/ \A field \in DOMAIN filter[1] :
          /\ field \in DOMAIN m.metadata
          /\ m.metadata[field] \in Range(filter[1][field]["$in"])

(* the index's ranked answer: filter first, then the best top_k *)
IndexQuery(content, filter, k) == Take(SelectSeq(content, LAMBDA m : Passes(m, filter)), k)

IndexRespond(req, fault) ==
    IF fault # None THEN [raised |-> fault[1]]
    ELSE [matches |->
            IndexQuery(index, IF "filter" \in DOMAIN req THEN req.filter ELSE None, req.top_k)]

(* --------------------------- request state ---------------------------- *)

NewRequest ==
    [pc |-> "embed", calls |-> <<>>, query_vector |-> None, docs |-> None, id_set |-> None,
     response |-> None, records |-> None, records_dict |-> None, docs_list |-> <<>>, result |-> None, error |-> None]

Fail(s, e) == [s EXCEPT !.pc = "failed", !.error = Some(e)]

(* ------------------------- SearchESG._run  ------------------------------ *)

(* embeddings.create, then response.data[0].embedding *)
RunEmbed(s, resp) ==
    LET s1 == [s EXCEPT !.calls = Append(@, [to |-> "embeddings.create", input |-> "query"])]
    IN IF "raised" \in DOMAIN resp THEN Fail(s1, resp.raised)
       ELSE IF Len(resp.data) = 0 THEN Fail(s1, "IndexError")
       ELSE [s1 EXCEPT !.pc = "query", !.query_vector = Some(resp.data[1].embedding)]

(* mutant: the allow-list is never turned into a filter *)
RunFilterDropped(ids) == None

(* filter = None; if doc_ids: filter = {"rec_id": {"$in": doc_ids}} *)
RunFilter(ids) ==
    IF ids # None /\ Len(ids[1]) > 0 THEN Some("rec_id" :> ("$in" :> ids[1])) ELSE None

(* id_set of doc["metadata"]["rec_id"] over the matches *)
RunIdSet(matches) ==
    IF \E i \in 1..Len(matches) : "rec_id" \notin DOMAIN matches[i].metadata
    THEN Err("KeyError")
    ELSE Ok({matches[i].metadata.rec_id : i \in 1..Len(matches)})

(* idx.query with the filter, then the loop that collects id_set *)
RunQuery(s, k, ids, fault) ==
    LET req  == [to |-> "idx.query", namespace |-> "ESG", vector |-> s.query_vector[1],
                 filter |-> RunFilter(ids), top_k |-> k, include_metadata |-> TRUE]
        s1   == [s EXCEPT !.calls = Append(@, req)]
        resp == IndexRespond(req, fault)
    IN IF "raised" \in DOMAIN resp THEN Fail(s1, resp.raised)
       ELSE LET s2  == [s1 EXCEPT !.docs = Some(resp.matches)]
                set == RunIdSet(resp.matches)
            IN IF set.ok THEN [s2 EXCEPT !.pc = "fetch", !.id_set = Some(set.val)]
               ELSE Fail(s2, set.err)

(* xata_response.get("records", []) *)
RunRecords(xata_response) ==
    IF "records" \in DOMAIN xata_response THEN xata_response.records ELSE <<>>

(* {record["id"]: record for record in records}: a later record replaces an earlier one *)
RECURSIVE RunRecordsDict(_)
RunRecordsDict(records) ==
    IF records = <<>> THEN Ok(EmptyDict)
    ELSE LET n     == Len(records)
             front == RunRecordsDict(SubSeq(records, 1, n - 1))
         IN IF ~front.ok THEN front
            ELSE IF "id" \notin DOMAIN records[n] THEN Err("KeyError")
            ELSE Ok((records[n].id :> records[n]) @@ front.val)

(* mutant: a failed lookup is retried once and then read as an empty answer *)
RunFetchRetry(s, resp) ==
    LET req == [to |-> "xata.query", table |-> "ESG",
                columns |-> <<"company_short_name", "report_title", "publication_date">>,
                any |-> s.id_set[1]]
        s1  == [s EXCEPT !.calls = Append(@, req)]
    IN IF "raised" \in DOMAIN resp
       THEN [s1 EXCEPT !.calls = Append(@, req), !.pc = "join",
                       !.response = Some([records |-> <<>>]), !.records = Some(<<>>),
                       !.records_dict = Some(EmptyDict)]
       ELSE LET records == RunRecords(resp)
                s2 == [s1 EXCEPT !.response = Some(resp), !.records = Some(records)]
                d  == RunRecordsDict(records)
            IN IF d.ok THEN [s2 EXCEPT !.pc = "join", !.records_dict = Some(d.val)]
               ELSE Fail(s2, d.err)

(* mutant: xata_response["records"] in place of xata_response.get("records", []) *)
RunFetchStrict(s, resp) ==
    LET req == [to |-> "xata.query", table |-> "ESG",
                columns |-> <<"company_short_name", "report_title", "publication_date">>,
                any |-> s.id_set[1]]
        s1  == [s EXCEPT !.calls = Append(@, req)]
    IN IF "raised" \in DOMAIN resp THEN Fail(s1, resp.raised)
       ELSE IF "records" \notin DOMAIN resp
       THEN Fail([s1 EXCEPT !.response = Some(resp)], "KeyError")
       ELSE LET records == resp.records
                s2 == [s1 EXCEPT !.response = Some(resp), !.records = Some(records)]
                d  == RunRecordsDict(records)
            IN IF d.ok THEN [s2 EXCEPT !.pc = "join", !.records_dict = Some(d.val)]
               ELSE Fail(s2, d.err)

(* xata.data().query("ESG", ...), then records and records_dict *)
RunFetch(s, resp) ==
    LET req == [to |-> "xata.query", table |-> "ESG",
                columns |-> <<"company_short_name", "report_title", "publication_date">>,
                any |-> s.id_set[1]]
        s1  == [s EXCEPT !.calls = Append(@, req)]
    IN IF "raised" \in DOMAIN resp THEN Fail(s1, resp.raised)
       ELSE LET records == RunRecords(resp)
                s2 == [s1 EXCEPT !.response = Some(resp), !.records = Some(records)]
                d  == RunRecordsDict(records)
            IN IF d.ok THEN [s2 EXCEPT !.pc = "join", !.records_dict = Some(d.val)]
               ELSE Fail(s2, d.err)

(* the body of "if record:": the citation of one match *)
RunEntry(doc, record) ==
    IF "publication_date" \notin DOMAIN record THEN Err("TypeError")
    ELSE LET date == StrpTime(record.publication_date)
         IN IF ~date.ok THEN date
            ELSE IF "page_number" \notin DOMAIN doc.metadata THEN Err("KeyError")
            ELSE IF "text" \notin DOMAIN doc.metadata THEN Err("KeyError")
            ELSE LET company_short_name ==
                        IF "company_short_name" \in DOMAIN record
                        THEN record.company_short_name ELSE ""
                     report_title ==
                        IF "report_title" \in DOMAIN record THEN record.report_title ELSE ""
                     source_entry ==
                        company_short_name \o ". " \o report_title \o ". "
                            \o Str(StrfDay(date.val)) \o ". (P"
                            \o ToString(doc.metadata.page_number) \o ")"
                 IN Ok([content |-> doc.metadata.text, source |-> source_entry])

(* mutant: the loop emits one entry per record, skipping a match whose key was seen *)
RECURSIVE RunJoinFromOncePerKey(_, _, _, _)
RunJoinFromOncePerKey(matches, records_dict, i, docs_list) ==
    IF i > Len(matches) THEN [error |-> None, docs_list |-> docs_list]
    ELSE LET doc == matches[i]
         IN IF "rec_id" \notin DOMAIN doc.metadata
            THEN [error |-> Some("KeyError"), docs_list |-> docs_list]
            ELSE LET id == doc.metadata.rec_id
                 IN IF \/ id \notin DOMAIN records_dict
                       \/ \E j \in 1..(i - 1) : matches[j].metadata.rec_id = id
                    THEN RunJoinFromOncePerKey(matches, records_dict, i + 1, docs_list)
                    ELSE LET e == RunEntry(doc, records_dict[id])
                         IN IF e.ok
                            THEN RunJoinFromOncePerKey(matches, records_dict, i + 1,
                                                       Append(docs_list, e.val))
                            ELSE [error |-> Some(e.err), docs_list |-> docs_list]

(* for doc in docs["matches"]: look the record up, skip when absent, else append *)
RECURSIVE RunJoinFrom(_, _, _, _)
RunJoinFrom(matches, records_dict, i, docs_list) ==
    IF i > Len(matches) THEN [error |-> None, docs_list |-> docs_list]
    ELSE LET doc == matches[i]
         IN IF "rec_id" \notin DOMAIN doc.metadata
            THEN [error |-> Some("KeyError"), docs_list |-> docs_list]
            ELSE LET id == doc.metadata.rec_id
                 IN IF id \notin DOMAIN records_dict
                    THEN RunJoinFrom(matches, records_dict, i + 1, docs_list)
                    ELSE LET e == RunEntry(doc, records_dict[id])
                         IN IF e.ok
                            THEN RunJoinFrom(matches, records_dict, i + 1,
                                             Append(docs_list, e.val))
                            ELSE [error |-> Some(e.err), docs_list |-> docs_list]

(* mutant: an error in the loop is caught and the entries built so far are returned *)
RunJoinPartial(s) ==
    LET r == RunJoinFrom(s.docs[1], s.records_dict[1], 1, <<>>)
    IN [s EXCEPT !.pc = "done", !.docs_list = r.docs_list,
                 !.result = Some([type |-> "str", of |-> r.docs_list])]

(* the join loop and return str(docs_list) *)
RunJoin(s) ==
    LET r == RunJoinFrom(s.docs[1], s.records_dict[1], 1, <<>>)
    IN IF r.error # None
       THEN [s EXCEPT !.pc = "failed", !.error = r.error, !.docs_list = r.docs_list]
       ELSE [s EXCEPT !.pc = "done", !.docs_list = r.docs_list,
                      !.result = Some([type |-> "str", of |-> r.docs_list])]

(* ------------------------- SearchESG._arun ------------------------------ *)

(* embeddings.create, then response.data[0].embedding *)
ArunEmbed(s, resp) ==
    LET s1 == [s EXCEPT !.calls = Append(@, [to |-> "embeddings.create", input |-> "query"])]
    IN IF "raised" \in DOMAIN resp THEN Fail(s1, resp.raised)
       ELSE IF Len(resp.data) = 0 THEN Fail(s1, "IndexError")
       ELSE [s1 EXCEPT !.pc = "query", !.query_vector = Some(resp.data[1].embedding)]

(* mutant: "if doc_ids is not None" in place of "if doc_ids" *)
ArunFilterIfNotNone(ids) ==
    IF ids # None THEN Some("rec_id" :> ("$in" :> ids[1])) ELSE None

(* mutant: the filter names the field "id" in place of "rec_id" *)
ArunFilterOnId(ids) ==
    IF ids # None /\ Len(ids[1]) > 0 THEN Some("id" :> ("$in" :> ids[1])) ELSE None

(* filter = None; if doc_ids: filter = {"rec_id": {"$in": doc_ids}} *)
ArunFilter(ids) ==
    IF ids # None /\ Len(ids[1]) > 0 THEN Some("rec_id" :> ("$in" :> ids[1])) ELSE None

(* id_set of doc["metadata"]["rec_id"] over the matches *)
ArunIdSet(matches) ==
    IF \E i \in 1..Len(matches) : "rec_id" \notin DOMAIN matches[i].metadata
    THEN Err("KeyError")
    ELSE Ok({matches[i].metadata.rec_id : i \in 1..Len(matches)})

(* idx.query with the filter, then the loop that collects id_set *)
ArunQuery(s, k, ids, fault) ==
    LET req  == [to |-> "idx.query", namespace |-> "ESG", vector |-> s.query_vector[1],
                 filter |-> ArunFilter(ids), top_k |-> k, include_metadata |-> TRUE]
        s1   == [s EXCEPT !.calls = Append(@, req)]
        resp == IndexRespond(req, fault)
    IN IF "raised" \in DOMAIN resp THEN Fail(s1, resp.raised)
       ELSE LET s2  == [s1 EXCEPT !.docs = Some(resp.matches)]
                set == ArunIdSet(resp.matches)
            IN IF set.ok THEN [s2 EXCEPT !.pc = "fetch", !.id_set = Some(set.val)]
               ELSE Fail(s2, set.err)

(* xata_response.get("records", []) *)
ArunRecords(xata_response) ==
    IF "records" \in DOMAIN xata_response THEN xata_response.records ELSE <<>>

(* {record["id"]: record for record in records}: a later record replaces an earlier one *)
RECURSIVE ArunRecordsDict(_)
ArunRecordsDict(records) ==
    IF records = <<>> THEN Ok(EmptyDict)
    ELSE LET n     == Len(records)
             front == ArunRecordsDict(SubSeq(records, 1, n - 1))
         IN IF ~front.ok THEN front
            ELSE IF "id" \notin DOMAIN records[n] THEN Err("KeyError")
            ELSE Ok((records[n].id :> records[n]) @@ front.val)

(* xata.data().query("ESG", ...), then records and records_dict *)
ArunFetch(s, resp) ==
    LET req == [to |-> "xata.query", table |-> "ESG",
                columns |-> <<"company_short_name", "report_title", "publication_date">>,
                any |-> s.id_set[1]]
        s1  == [s EXCEPT !.calls = Append(@, req)]
    IN IF "raised" \in DOMAIN resp THEN Fail(s1, resp.raised)
       ELSE LET records == ArunRecords(resp)
                s2 == [s1 EXCEPT !.response = Some(resp), !.records = Some(records)]
                d  == ArunRecordsDict(records)
            IN IF d.ok THEN [s2 EXCEPT !.pc = "join", !.records_dict = Some(d.val)]
               ELSE Fail(s2, d.err)

(* the body of "if record:": the citation of one match *)
ArunEntry(doc, record) ==
    IF "publication_date" \notin DOMAIN record THEN Err("TypeError")
    ELSE LET date == StrpTime(record.publication_date)
         IN IF ~date.ok THEN date
            ELSE IF "page_number" \notin DOMAIN doc.metadata THEN Err("KeyError")
            ELSE IF "text" \notin DOMAIN doc.metadata THEN Err("KeyError")
            ELSE LET company_short_name ==
                        IF "company_short_name" \in DOMAIN record
                        THEN record.company_short_name ELSE ""
                     report_title ==
                        IF "report_title" \in DOMAIN record THEN record.report_title ELSE ""
                     source_entry ==
                        company_short_name \o ". " \o report_title \o ". "
                            \o Str(StrfDay(date.val)) \o ". (P"
                            \o ToString(doc.metadata.page_number) \o ")"
                 IN Ok([content |-> doc.metadata.text, source |-> source_entry])

(* for doc in docs["matches"]: look the record up, skip when absent, else append *)
RECURSIVE ArunJoinFrom(_, _, _, _)
ArunJoinFrom(matches, records_dict, i, docs_list) ==
    IF i > Len(matches) THEN [error |-> None, docs_list |-> docs_list]
    ELSE LET doc == matches[i]
         IN IF "rec_id" \notin DOMAIN doc.metadata
            THEN [error |-> Some("KeyError"), docs_list |-> docs_list]
            ELSE LET id == doc.metadata.rec_id
                 IN IF id \notin DOMAIN records_dict
                    THEN ArunJoinFrom(matches, records_dict, i + 1, docs_list)
                    ELSE LET e == ArunEntry(doc, records_dict[id])
                         IN IF e.ok
                            THEN ArunJoinFrom(matches, records_dict, i + 1,
                                             Append(docs_list, e.val))
                            ELSE [error |-> Some(e.err), docs_list |-> docs_list]

(* the join loop and return str(docs_list) *)
ArunJoin(s) ==
    LET r == ArunJoinFrom(s.docs[1], s.records_dict[1], 1, <<>>)
    IN IF r.error # None
       THEN [s EXCEPT !.pc = "failed", !.error = r.error, !.docs_list = r.docs_list]
       ELSE [s EXCEPT !.pc = "done", !.docs_list = r.docs_list,
                      !.result = Some([type |-> "str", of |-> r.docs_list])]

(* ------------------------------ search -------------------------------- *)

(* embeddings.create, then response.data[0].embedding *)
SearchEmbed(s, resp) ==
    LET s1 == [s EXCEPT !.calls = Append(@, [to |-> "embeddings.create", input |-> "query"])]
    IN IF "raised" \in DOMAIN resp THEN Fail(s1, resp.raised)
       ELSE IF Len(resp.data) = 0 THEN Fail(s1, "IndexError")
       ELSE [s1 EXCEPT !.pc = "query", !.query_vector = Some(resp.data[1].embedding)]

(* mutant: rsplit("_", 1)[0] in place of rpartition("_")[0]: the whole id when no "_" *)
SearchSetDoiRsplit(matche) ==
    IF \E i \in 1..Len(matche.id) : matche.id[i] = "_"
    THEN RPartitionHead(matche.id, "_")
    ELSE matche.id

(* doi = matche["id"].rpartition("_")[0], in the loop that fills doi_set *)
SearchSetDoi(matche) == RPartitionHead(matche.id, "_")

(* doi_set over the matches *)
SearchDoiSet(matches) == {SearchSetDoi(matches[i]) : i \in 1..Len(matches)}

(* mutant: partition("_") in place of rpartition("_"): cut at the first underscore *)
SearchJoinDoiFirstCut(doc) ==
    IF \E i \in 1..Len(doc.id) : doc.id[i] = "_"
    THEN SubSeq(doc.id, 1, (CHOOSE i \in 1..Len(doc.id) :
                               doc.id[i] = "_" /\ \A j \in 1..(i - 1) : doc.id[j] # "_") - 1)
    ELSE <<>>

(* doi = doc["id"].rpartition("_")[0], in the join loop *)
SearchJoinDoi(doc) == RPartitionHead(doc.id, "_")

(* idx.query without a filter, then the loop that collects doi_set *)
SearchQuery(s, k, fault) ==
    LET req  == [to |-> "idx.query", namespace |-> "SCI", vector |-> s.query_vector[1],
                 top_k |-> k, include_metadata |-> TRUE]
        s1   == [s EXCEPT !.calls = Append(@, req)]
        resp == IndexRespond(req, fault)
    IN IF "raised" \in DOMAIN resp THEN Fail(s1, resp.raised)
       ELSE [s1 EXCEPT !.pc = "fetch", !.docs = Some(resp.matches),
                       !.id_set = Some(SearchDoiSet(resp.matches))]

(* {record["doi"]: record for record in records} *)
RECURSIVE SearchRecordsDict(_)
SearchRecordsDict(records) ==
    IF records = <<>> THEN Ok(EmptyDict)
    ELSE LET n     == Len(records)
             front == SearchRecordsDict(SubSeq(records, 1, n - 1))
         IN IF ~front.ok THEN front
            ELSE IF "doi" \notin DOMAIN records[n] THEN Err("KeyError")
            ELSE Ok((records[n].doi :> records[n]) @@ front.val)

(* supabase.table("journals").select(...).in_("doi", list(doi_set)).execute(), .data *)
SearchFetch(s, resp) ==
    LET req == [to |-> "supabase.select", table |-> "journals", columns |-> "doi,title,authors",
                any |-> s.id_set[1]]
        s1  == [s EXCEPT !.calls = Append(@, req)]
    IN IF "raised" \in DOMAIN resp THEN Fail(s1, resp.raised)
       ELSE LET records == resp.data
                s2 == [s1 EXCEPT !.response = Some(resp), !.records = Some(records)]
                d  == SearchRecordsDict(records)
            IN IF d.ok THEN [s2 EXCEPT !.pc = "join", !.records_dict = Some(d.val)]
               ELSE Fail(s2, d.err)

(* the body of "if record:": the citation of one match *)
SearchEntry(doc, doi, record) ==
    IF "date" \notin DOMAIN doc.metadata THEN Err("KeyError")
    ELSE IF "authors" \notin DOMAIN record THEN Err("KeyError")
    ELSE IF "title" \notin DOMAIN record THEN Err("KeyError")
    ELSE IF "journal" \notin DOMAIN doc.metadata THEN Err("KeyError")
    ELSE IF "text" \notin DOMAIN doc.metadata THEN Err("KeyError")
    ELSE LET formatted_date == Str(StrfMonth(FromTimestamp(doc.metadata.date)))
             authors == JoinComma(record.authors)
             url == "https://doi.org/" \o Str(doi)
             source_entry ==
                "[" \o record.title \o ". " \o doc.metadata.journal \o ". " \o authors
                    \o ". " \o formatted_date \o ".](" \o url \o ")"
         IN Ok([content |-> doc.metadata.text, source |-> source_entry])

(* mutant: records_dict[doi] in place of records_dict.get(doi, {}) *)
RECURSIVE SearchJoinFromStrict(_, _, _, _)
SearchJoinFromStrict(matches, records_dict, i, docs_list) ==
    IF i > Len(matches) THEN [error |-> None, docs_list |-> docs_list]
    ELSE LET doc == matches[i]
             doi == SearchJoinDoi(doc)
         IN IF doi \notin DOMAIN records_dict
            THEN [error |-> Some("KeyError"), docs_list |-> docs_list]
            ELSE LET e == SearchEntry(doc, doi, records_dict[doi])
                 IN IF e.ok
                    THEN SearchJoinFromStrict(matches, records_dict, i + 1,
                                              Append(docs_list, e.val))
                    ELSE [error |-> Some(e.err), docs_list |-> docs_list]

(* for doc in docs["matches"]: look the record up, skip when absent, else append *)
RECURSIVE SearchJoinFrom(_, _, _, _)
SearchJoinFrom(matches, records_dict, i, docs_list) ==
    IF i > Len(matches) THEN [error |-> None, docs_list |-> docs_list]
    ELSE LET doc == matches[i]
             doi == SearchJoinDoi(doc)
         IN IF doi \notin DOMAIN records_dict
            THEN SearchJoinFrom(matches, records_dict, i + 1, docs_list)
            ELSE LET e == SearchEntry(doc, doi, records_dict[doi])
                 IN IF e.ok
                    THEN SearchJoinFrom(matches, records_dict, i + 1, Append(docs_list, e.val))
                    ELSE [error |-> Some(e.err), docs_list |-> docs_list]

(* the join loop and return docs_list *)
SearchJoin(s) ==
    LET r == SearchJoinFrom(s.docs[1], s.records_dict[1], 1, <<>>)
    IN IF r.error # None
       THEN [s EXCEPT !.pc = "failed", !.error = r.error, !.docs_list = r.docs_list]
       ELSE [s EXCEPT !.pc = "done", !.docs_list = r.docs_list,
                      !.result = Some([type |-> "list", of |-> r.docs_list])]

(* --------------------------- state machine ---------------------------- *)

Forms(p) == IF p = "ESG" THEN {"_run", "_arun"} ELSE {"search"}

Init ==
    /\ pipeline \in {"ESG", "SCI"}
    /\ top_k \in TopKs
    /\ doc_ids \in (IF pipeline = "ESG" THEN DocIdChoices ELSE {None})
    /\ index \in {m \in BoundedSeq(MatchPool(pipeline), MaxMatches) : NoRepeat(m)}
    /\ st = [f \in Forms(pipeline) |-> NewRequest]

AfterEmbed(f, s, resp) ==
    CASE f = "_run" -> RunEmbed(s, resp)
      [] f = "_arun" -> ArunEmbed(s, resp)
      [] f = "search" -> SearchEmbed(s, resp)

AfterQuery(f, s, fault) ==
    CASE f = "_run" -> RunQuery(s, top_k, doc_ids, fault)
      [] f = "_arun" -> ArunQuery(s, top_k, doc_ids, fault)
      [] f = "search" -> SearchQuery(s, top_k, fault)

AfterFetch(f, s, resp) ==
    CASE f = "_run" -> RunFetch(s, resp)
      [] f = "_arun" -> ArunFetch(s, resp)
      [] f = "search" -> SearchFetch(s, resp)

AfterJoin(f, s) ==
    CASE f = "_run" -> RunJoin(s)
      [] f = "_arun" -> ArunJoin(s)
      [] f = "search" -> SearchJoin(s)

At(stage) == {f \in DOMAIN st : st[f].pc = stage}

(* the embedding provider answers every invocation waiting for it *)
Embed ==
    /\ At("embed") # {}
    /\ \E resp \in EmbedResponses :
          st' = [f \in DOMAIN st |->
                    IF f \in At("embed") THEN AfterEmbed(f, st[f], resp) ELSE st[f]]
    /\ UNCHANGED <<pipeline, top_k, doc_ids, index>>

(* the vector index answers, or fails *)
Query ==
    /\ At("query") # {}
    /\ \E fault \in IndexFaults :
          st' = [f \in DOMAIN st |->
                    IF f \in At("query") THEN AfterQuery(f, st[f], fault) ELSE st[f]]
    /\ UNCHANGED <<pipeline, top_k, doc_ids, index>>

(* the metadata store answers, or fails *)
Fetch ==
    /\ At("fetch") # {}
    /\ \E resp \in StoreResponses(pipeline) :
          st' = [f \in DOMAIN st |->
                    IF f \in At("fetch") THEN AfterFetch(f, st[f], resp) ELSE st[f]]
    /\ UNCHANGED <<pipeline, top_k, doc_ids, index>>

(* the join loop runs to its return or to its first error *)
Join ==
    /\ At("join") # {}
    /\ st' = [f \in DOMAIN st |-> IF f \in At("join") THEN AfterJoin(f, st[f]) ELSE st[f]]
    /\ UNCHANGED <<pipeline, top_k, doc_ids, index>>

Next == Embed \/ Query \/ Fetch \/ Join

Spec == Init /\ [][Next]_vars

(* ------------------------- vocabulary of the claims ------------------- *)

Finished(s) == s.pc \in {"done", "failed"}

HasUnderscore(id) == \E n \in 1..Len(id) : id[n] = "_"

(* the part of id before its last underscore *)
LastUnderscorePrefix(id) ==
    LET n == CHOOSE n \in 1..Len(id) : id[n] = "_" /\ \A j \in (n + 1)..Len(id) : id[j] # "_"
    IN SubSeq(id, 1, n - 1)

(* the correlation key of a match: the rec_id field, or the identifier's prefix *)
Key(m) ==
    IF pipeline = "ESG" THEN m.metadata.rec_id
    ELSE IF HasUnderscore(m.id) THEN LastUnderscorePrefix(m.id) ELSE <<>>

RecordKey(r) == IF pipeline = "ESG" THEN r.id ELSE r.doi

(* the keys of the records the store returned *)
StoreKeys(s) == {RecordKey(s.records[1][i]) : i \in 1..Len(s.records[1])}

(* the record a key resolves to: the last one returned under that key *)
UsedRecord(s, k) ==
    LET rs == s.records[1]
        n  == CHOOSE n \in 1..Len(rs) :
                 RecordKey(rs[n]) = k /\ \A j \in (n + 1)..Len(rs) : RecordKey(rs[j]) # k
    IN rs[n]

Emitted(s, m) == \E j \in 1..Len(s.docs_list) : s.docs_list[j].content = m.metadata.text

(* a field whose absence or malformation stops the formatting of a matched entry *)
FatalDefect(m, r) ==
    IF pipeline = "ESG"
    THEN \/ "publication_date" \notin DOMAIN r
         \/ ~StrpTime(r.publication_date).ok
         \/ "page_number" \notin DOMAIN m.metadata
         \/ "text" \notin DOMAIN m.metadata
    ELSE \/ {"title", "authors"} \ DOMAIN r # {}
         \/ {"date", "journal", "text"} \ DOMAIN m.metadata # {}

(* any field the citation template reads is missing or malformed *)
AnyDefect(m, r) ==
    \/ FatalDefect(m, r)
    \/ pipeline = "ESG" /\ {"company_short_name", "report_title"} \ DOMAIN r # {}

Matched(s) == {i \in 1..Len(s.docs[1]) : Key(s.docs[1][i]) \in StoreKeys(s)}

StageNo(to) ==
    CASE to = "embeddings.create" -> 1
      [] to = "idx.query" -> 2
      [] to \in {"xata.query", "supabase.select"} -> 3

NoRecordsReturned(s) ==
    /\ s.response # None
    /\ "records" \in DOMAIN s.response[1] => s.response[1].records = <<>>
    /\ "data" \in DOMAIN s.response[1] => s.response[1].data = <<>>

(* ------------------------------- claims ------------------------------- *)

(* C1: in both pipelines a completed request returns exactly one entry per match whose
   correlation key has a record, in the ranked order of the matches: nothing is reordered,
   matches sharing a key are not collapsed, no entry stands for a key without a record,
   so there are at most as many entries as matches. *)
C1_OutputIsMatchedInOrder ==
    \A f \in DOMAIN st :
        st[f].pc = "done" =>
            LET s    == st[f]
                kept == SelectSeq(s.docs[1], LAMBDA m : Key(m) \in StoreKeys(s))
            IN /\ Len(s.docs_list) = Len(kept)
               /\ \A j \in 1..Len(kept) : s.docs_list[j].content = kept[j].metadata.text
               /\ Len(s.docs_list) <= Len(s.docs[1])
               /\ s.result[1].of = s.docs_list

C1_Witness ==
    \E f \in DOMAIN st :
        /\ st[f].pc = "done"
        /\ Len(st[f].docs[1]) = 2
        /\ Key(st[f].docs[1][1]) = Key(st[f].docs[1][2])
        /\ Len(st[f].docs_list) = 2

(* C2: in both pipelines a match whose correlation key has no record is absent from the
   output and never the cause of a failure: once the join has run, the request fails only
   if some match that does have a record cannot be formatted. *)
C2_UnmatchedSkippedSilently ==
    \A f \in DOMAIN st :
        (st[f].records_dict # None /\ Finished(st[f])) =>
            LET s == st[f]
            IN /\ \A i \in 1..Len(s.docs[1]) :
                      i \notin Matched(s) => ~Emitted(s, s.docs[1][i])
               /\ s.pc = "failed" =>
                      \E i \in Matched(s) :
                          FatalDefect(s.docs[1][i], UsedRecord(s, Key(s.docs[1][i])))

C2_Witness ==
    \E f \in DOMAIN st :
        /\ st[f].pc = "done"
        /\ Len(st[f].docs[1]) = 2
        /\ Cardinality(Matched(st[f])) = 1
        /\ Len(st[f].docs_list) = 1

(* C3: in the ESG pipeline with a non-empty doc_ids, the vector search returns no match
   whose rec_id is outside doc_ids, and every emitted entry comes from a match inside it. *)
C3_AllowListRestrictsMatches ==
    (pipeline = "ESG" /\ doc_ids # None /\ doc_ids # Some(<<>>)) =>
        \A f \in DOMAIN st :
            /\ st[f].docs # None =>
                  \A i \in 1..Len(st[f].docs[1]) :
                      /\ "rec_id" \in DOMAIN st[f].docs[1][i].metadata
                      /\ st[f].docs[1][i].metadata.rec_id \in Range(doc_ids[1])
            /\ \A j \in 1..Len(st[f].docs_list) :
                  \E i \in 1..Len(index) :
                      /\ "rec_id" \in DOMAIN index[i].metadata
                      /\ index[i].metadata.rec_id \in Range(doc_ids[1])
                      /\ index[i].metadata.text = st[f].docs_list[j].content

C3_Witness ==
    /\ pipeline = "ESG" /\ doc_ids # None /\ doc_ids # Some(<<>>)
    /\ \E i \in 1..Len(index) :
          /\ "rec_id" \in DOMAIN index[i].metadata
          /\ index[i].metadata.rec_id \notin Range(doc_ids[1])
    /\ st["_run"].pc = "done"
    /\ Len(st["_run"].docs_list) = 1

(* C4: in the ESG pipeline an empty doc_ids and an absent doc_ids both send the vector
   search without a filter, and both get the unfiltered best top_k of the namespace. *)
C4_EmptyAndAbsentUnfiltered ==
    (pipeline = "ESG" /\ (doc_ids = None \/ doc_ids = Some(<<>>))) =>
        \A f \in DOMAIN st :
            /\ Len(st[f].calls) >= 2 => st[f].calls[2].filter = None
            /\ st[f].docs # None => st[f].docs[1] = Take(index, top_k)

C4_Witness ==
    /\ pipeline = "ESG"
    /\ doc_ids = Some(<<>>)
    /\ st["_arun"].docs # None
    /\ Len(st["_arun"].docs[1]) = 2

(* C5: in the academic pipeline a match whose identifier has an underscore is looked up
   and joined under the identifier's prefix up to the last underscore: that prefix is in
   the key set sent to the store, and the match is emitted exactly when a record with
   that doi came back. *)
C5_KeyIsPrefixToLastUnderscore ==
    pipeline = "SCI" =>
        LET s == st["search"]
        IN s.docs # None =>
              \A i \in 1..Len(s.docs[1]) :
                  HasUnderscore(s.docs[1][i].id) =>
                      /\ Len(s.calls) >= 3 =>
                            LastUnderscorePrefix(s.docs[1][i].id) \in s.calls[3].any
                      /\ s.pc = "done" =>
                            (Emitted(s, s.docs[1][i])
                                <=> LastUnderscorePrefix(s.docs[1][i].id) \in StoreKeys(s))

C5_Witness ==
    /\ pipeline = "SCI"
    /\ st["search"].pc = "done"
    /\ Len(st["search"].docs[1]) = 2
    /\ st["search"].docs[1][1].id = IdXyz0
    /\ st["search"].docs[1][2].id = IdAB0
    /\ StoreKeys(st["search"]) = {DoiXyz, DoiAB}
    /\ Len(st["search"].docs_list) = 2

(* C6: _run and _arun, given the same arguments and the same collaborator answers, issue
   the same requests and end with the same returned string or the same error. *)
C6_RunAndArunAgree ==
    pipeline = "ESG" =>
        /\ st["_run"].calls = st["_arun"].calls
        /\ st["_run"].pc = st["_arun"].pc
        /\ st["_run"].result = st["_arun"].result
        /\ st["_run"].error = st["_arun"].error

C6_Witness ==
    /\ pipeline = "ESG"
    /\ st["_run"].pc = "done"
    /\ st["_arun"].pc = "done"
    /\ Len(st["_arun"].result[1].of) = 2

(* C7: the calls of an invocation are embedding, vector search, metadata fetch, in that
   order, each made once and only after the one before it returned; a failed stage ends
   the request with that error, no later call is made and nothing is returned. *)
C7_StagesSequentialAndFailFast ==
    \A f \in DOMAIN st :
        LET s == st[f]
            n == Len(s.calls)
        IN /\ n <= 3
           /\ \A i \in 1..n : StageNo(s.calls[i].to) = i
           /\ s.pc = "embed" => n = 0
           /\ s.pc = "query" => n = 1
           /\ s.pc = "fetch" => n = 2
           /\ s.pc \in {"join", "done"} => n = 3 /\ s.response # None
           /\ n >= 2 => s.query_vector # None
           /\ n >= 3 => s.docs # None /\ s.id_set # None
           /\ s.pc = "failed" <=> s.error # None
           /\ s.pc = "done" <=> s.result # None
           /\ s.error \in {Some("AuthenticationError"), Some("IndexError")} => n = 1
           /\ s.error = Some("PineconeException") => n = 2 /\ s.docs = None
           /\ s.error \in {Some("ConnectionError"), Some("ConnectError")} =>
                 n = 3 /\ s.response = None /\ s.docs_list = <<>>

C7_Witness ==
    \E f \in DOMAIN st :
        /\ st[f].pc = "failed"
        /\ st[f].error = Some("PineconeException")
        /\ Len(st[f].calls) = 2
        /\ st[f].result = None

(* C8 as stated: whenever the bulk lookup yields no records, the store being unreachable
   included, the request completes with an empty result list. *)
C8_Original ==
    \A f \in DOMAIN st :
        (/\ Finished(st[f])
         /\ Len(st[f].calls) = 3
         /\ (st[f].response = None \/ NoRecordsReturned(st[f]))) =>
            /\ st[f].pc = "done"
            /\ st[f].result[1].of = <<>>

(* C8 amended: when the bulk lookup returns an answer holding no records (an empty list,
   or for ESG a body without "records"), every match is dropped and the request completes
   with an empty result list; when the lookup raises, the request fails with that error. *)
C8_NoRecordsGivesEmptyResult ==
    \A f \in DOMAIN st :
        /\ (Finished(st[f]) /\ NoRecordsReturned(st[f])) =>
              /\ st[f].pc = "done"
              /\ st[f].result[1].of = <<>>
        /\ (Len(st[f].calls) = 3 /\ st[f].response = None) =>
              /\ st[f].pc = "failed"
              /\ st[f].error \in {Some("ConnectionError"), Some("ConnectError")}

C8_Witness ==
    /\ pipeline = "ESG"
    /\ st["_run"].pc = "done"
    /\ "message" \in DOMAIN st["_run"].response[1]
    /\ Len(st["_run"].docs[1]) = 2
    /\ st["_run"].result[1].of = <<>>

(* C9 as stated: any missing or malformed field the citation needs, on a match that has a
   record, fails the request. *)
C9_Original ==
    \A f \in DOMAIN st :
        (/\ st[f].records_dict # None
         /\ Finished(st[f])
         /\ \E i \in Matched(st[f]) :
               AnyDefect(st[f].docs[1][i], UsedRecord(st[f], Key(st[f].docs[1][i])))) =>
            /\ st[f].pc = "failed"
            /\ st[f].result = None

(* C9 amended: a missing or unparsable publication date, or a missing page number, date,
   journal, title, authors or text, on a match that has a record, fails the request with
   the lookup or parsing error and returns none of the entries built before it; a missing
   company_short_name or report_title on an ESG record is not fatal and reads as "". *)
C9_FatalFieldsAbortWithoutPartialResult ==
    \A f \in DOMAIN st :
        (st[f].records_dict # None /\ Finished(st[f])) =>
            LET s   == st[f]
                bad == {i \in Matched(s) :
                           FatalDefect(s.docs[1][i], UsedRecord(s, Key(s.docs[1][i])))}
            IN /\ bad # {} =>
                     /\ s.pc = "failed"
                     /\ s.result = None
                     /\ s.error \in {Some("KeyError"), Some("TypeError"), Some("ValueError")}
               /\ bad = {} =>
                     /\ s.pc = "done"
                     /\ \A i \in Matched(s) : Emitted(s, s.docs[1][i])

C9_Witness ==
    \E f \in DOMAIN st :
        /\ st[f].pc = "failed"
        /\ st[f].records_dict # None
        /\ Len(st[f].docs_list) = 1
        /\ st[f].result = None

(* C10: in the academic pipeline a match whose identifier has no underscore is looked up
   under the empty string, not under its identifier: "" is in the key set sent to the
   store, and the match is emitted exactly when a record whose doi is "" came back. *)
C10_NoUnderscoreGivesEmptyKey ==
    pipeline = "SCI" =>
        LET s == st["search"]
        IN s.docs # None =>
              \A i \in 1..Len(s.docs[1]) :
                  ~HasUnderscore(s.docs[1][i].id) =>
                      /\ Len(s.calls) >= 3 =>
                            /\ <<>> \in s.calls[3].any
                            /\ s.docs[1][i].id \notin s.calls[3].any
                      /\ s.pc = "done" => (Emitted(s, s.docs[1][i]) <=> <<>> \in StoreKeys(s))

C10_Witness ==
    /\ pipeline = "SCI"
    /\ st["search"].pc = "done"
    /\ \E i \in 1..Len(st["search"].docs[1]) :
          /\ st["search"].docs[1][i].id = IdPlain
          /\ Emitted(st["search"], st["search"].docs[1][i])
    /\ <<>> \in StoreKeys(st["search"])

====
